---- MODULE Spec2Model ----
(***************************************************************************)
(* Token lifecycle of py-bakalari's LoginClient (src/api/login.py):        *)
(* TokenSet conversion and expiry, the token file, the grant request and   *)
(* the authenticate / get_access_token cascades.                           *)
(*                                                                         *)
(* A naive datetime is a record [s, us]: whole seconds and a flag telling  *)
(* whether the sub-second part is non-zero.  The token file is a record    *)
(* [kind, data]; a JSON object is a function from key names to values.     *)
(***************************************************************************)
EXTENDS Integers, Sequences, FiniteSets, TLC

\* ------------------------------------------------------------------ bounds
Epoch0 == 100000
MaxTime == 13
FineSpan == 1
LongStep == 13

\* ------------------------------------------------------- program constants
DefaultMargin == 10

VARIABLES now, frac, tz, file, last_auth_method, call, fmt, api

vars == <<now, frac, tz, file, last_auth_method, call, fmt, api>>

\* ------------------------------------------------------------ Python glue
NoneStr == "<None>"

None == [none |-> TRUE]

IsNone(t) == "none" \in DOMAIN t

EmptyDict == [k \in {} |-> 0]

Get(d, k, default) == IF k \in DOMAIN d THEN d[k] ELSE default

Truthy(s) == s \notin {NoneStr, ""}

DT(s, us) == [s |-> s, us |-> us]

DtGeq(a, b) == a.s > b.s \/ (a.s = b.s /\ a.us >= b.us)

\* datetime.timestamp() of a naive datetime reads it as local time;
\* int() drops the sub-second part (all instants here are positive).
int_timestamp(dt, off) == dt.s - off

utcfromtimestamp(n) == DT(n, 0)

StatusStr(n) == CASE n = 200 -> "200" [] n = 400 -> "400" [] OTHER -> "500"

\* ---------------------------------------------------------------- TokenSet
TokenKeys == {"access_token", "refresh_token", "id_token", "token_type", "expires_in"}

StoredKeys == TokenKeys \cup {"obtained_at"}

TokenSet(at, rt, idt, tt, ei, oa, ex) ==
    [access_token |-> at, refresh_token |-> rt, id_token |-> idt,
     token_type |-> tt, expires_in |-> ei, obtained_at |-> oa, extra |-> ex]

expires_at(t) == DT(t.obtained_at.s + t.expires_in, t.obtained_at.us)

is_expired_inverted(t, nowdt, margin) ==
    ~ DtGeq(DT(nowdt.s + margin, nowdt.us), expires_at(t))

is_expired_minus(t, nowdt, margin) ==
    DtGeq(DT(nowdt.s - margin, nowdt.us), expires_at(t))

is_expired(t, nowdt, margin) ==
    DtGeq(DT(nowdt.s + margin, nowdt.us), expires_at(t))

\* d.update(self.extra): a key of extra replaces the same key of d.
to_dict(t, off) ==
    t.extra @@
    ("access_token" :> t.access_token @@ "refresh_token" :> t.refresh_token
       @@ "id_token" :> t.id_token @@ "token_type" :> t.token_type
       @@ "expires_in" :> t.expires_in
       @@ "obtained_at" :> int_timestamp(t.obtained_at, off))

\* from_dict on a JSON value: [exc, token].  A non-object has no .get
\* (AttributeError); a missing access_token / refresh_token is a KeyError.
from_dict(json, nowdt, off) ==
    IF json.kind # "object" THEN [exc |-> "AttributeError", token |-> None]
    ELSE LET data == json.data IN
      IF ~ ({"access_token", "refresh_token"} \subseteq DOMAIN data)
      THEN [exc |-> "KeyError", token |-> None]
      ELSE [exc |-> "none",
            token |-> TokenSet(
               data["access_token"], data["refresh_token"],
               Get(data, "id_token", NoneStr),
               Get(data, "token_type", "Bearer"),
               Get(data, "expires_in", 0),
               utcfromtimestamp(Get(data, "obtained_at", int_timestamp(nowdt, off))),
               [k \in (DOMAIN data) \ StoredKeys |-> data[k]])]

\* -------------------------------------------------------------- token file
NoFile == [kind |-> "missing"]

NotJson == [kind |-> "notjson"]

JsonArray == [kind |-> "array"]

JsonObject(d) == [kind |-> "object", data |-> d]

save_tokens_merge(f, t, off) ==
    JsonObject(IF f.kind = "object" THEN to_dict(t, off) @@ f.data ELSE to_dict(t, off))

\* open(path, "w") + json.dump: the file holds exactly to_dict(token).
save_tokens(f, t, off) == JsonObject(to_dict(t, off))

load_tokens_strict(f, nowdt, off) ==
    IF f.kind = "missing" THEN [exc |-> "none", token |-> None]
    ELSE IF f.kind = "notjson" THEN [exc |-> "none", token |-> None]
    ELSE from_dict(f, nowdt, off)

\* [exc, token]: every exception of open / json.load / from_dict is caught.
load_tokens(f, nowdt, off) ==
    IF f.kind = "missing" THEN [exc |-> "none", token |-> None]
    ELSE IF f.kind = "notjson" THEN [exc |-> "none", token |-> None]
    ELSE LET r == from_dict(f, nowdt, off) IN
         IF r.exc # "none" THEN [exc |-> "none", token |-> None] ELSE r

\* ------------------------------------------------------ the login endpoint
\* What requests.post can do: raise (connection error, timeout), or answer
\* with a status and a body that is not JSON, a JSON array, or a JSON object.
OkBodies ==
    { "access_token" :> "a1" @@ "refresh_token" :> "r1",
      "access_token" :> "a1" @@ "refresh_token" :> "r1" @@ "expires_in" :> 5,
      "access_token" :> "a2" @@ "refresh_token" :> "r2" @@ "expires_in" :> 11 @@ "scope" :> "s1",
      "access_token" :> "a2" @@ "refresh_token" :> "r2" @@ "expires_in" :> 11
         @@ "obtained_at" :> 7 }

ErrorBodies ==
    { EmptyDict,
      "error_description" :> "bad credentials" @@ "error" :> "invalid_grant" }

Responses ==
    {[net |-> "error"]}
    \cup {[net |-> "ok", status |-> 500, json |-> "invalid", text |-> "<html>"]}
    \cup {[net |-> "ok", status |-> 200, json |-> "array", text |-> "[]"]}
    \cup {[net |-> "ok", status |-> 200, json |-> "object", text |-> "{..}", body |-> b] :
             b \in OkBodies \cup {"access_token" :> "a1"}}
    \cup {[net |-> "ok", status |-> 400, json |-> "object", text |-> "{..}", body |-> b] :
             b \in ErrorBodies}

Raise(exc, msg) == [exc |-> exc, msg |-> msg, token |-> None]

\* _login_request: [exc, msg, token]
login_request_lenient(resp, nowdt) ==
    IF resp.net = "error" THEN Raise("RequestException", <<>>)
    ELSE IF resp.json = "invalid"
    THEN Raise("LoginError", <<"Invalid response from server: ", StatusStr(resp.status), resp.text>>)
    ELSE IF resp.json = "array" THEN Raise("AttributeError", <<>>)
    ELSE LET body == resp.body IN
      IF resp.status # 200
      THEN LET err == IF Truthy(Get(body, "error_description", NoneStr))
                      THEN body["error_description"]
                      ELSE IF Truthy(Get(body, "error", NoneStr)) THEN body["error"]
                      ELSE resp.text
           IN Raise("LoginError", <<"Login failed: ", err>>)
      ELSE LET at == Get(body, "access_token", NoneStr)
               rt == Get(body, "refresh_token", NoneStr) IN
        IF ~ Truthy(at)
        THEN Raise("LoginError", <<"Login response missing tokens">>)
        ELSE [exc |-> "none", msg |-> <<>>,
              token |-> TokenSet(at, rt, Get(body, "id_token", NoneStr),
                                 Get(body, "token_type", "Bearer"),
                                 Get(body, "expires_in", 0), nowdt,
                                 [k \in (DOMAIN body) \ TokenKeys |-> body[k]])]

login_request(resp, nowdt) ==
    IF resp.net = "error" THEN Raise("RequestException", <<>>)
    ELSE IF resp.json = "invalid"
    THEN Raise("LoginError", <<"Invalid response from server: ", StatusStr(resp.status), resp.text>>)
    ELSE IF resp.json = "array" THEN Raise("AttributeError", <<>>)
    ELSE LET body == resp.body IN
      IF resp.status # 200
      THEN LET err == IF Truthy(Get(body, "error_description", NoneStr))
                      THEN body["error_description"]
                      ELSE IF Truthy(Get(body, "error", NoneStr)) THEN body["error"]
                      ELSE resp.text
           IN Raise("LoginError", <<"Login failed: ", err>>)
      ELSE LET at == Get(body, "access_token", NoneStr)
               rt == Get(body, "refresh_token", NoneStr) IN
        IF ~ Truthy(at) \/ ~ Truthy(rt)
        THEN Raise("LoginError", <<"Login response missing tokens">>)
        ELSE [exc |-> "none", msg |-> <<>>,
              token |-> TokenSet(at, rt, Get(body, "id_token", NoneStr),
                                 Get(body, "token_type", "Bearer"),
                                 Get(body, "expires_in", 0), nowdt,
                                 [k \in (DOMAIN body) \ TokenKeys |-> body[k]])]

\* ------------------------------------------------------------- LoginClient
\* Result of a method: what it raised or returned, the grant requests it
\* sent (in order) with the answers they got, and the file and
\* last_auth_method it leaves behind.
Result(exc, msg, token, retStr, f, auth, reqs, resps) ==
    [exc |-> exc, msg |-> msg, token |-> token, retStr |-> retStr,
     file |-> f, auth |-> auth, reqs |-> reqs, resps |-> resps]

NoResp == [net |-> "unused"]

grant_resend(kind, f, auth, resp, nowdt, off) ==
    LET r == login_request(resp, nowdt) IN
    IF r.exc # "none"
    THEN Result(r.exc, r.msg, None, NoneStr, f, auth, <<kind, kind>>, <<resp, resp>>)
    ELSE Result("none", <<>>, r.token, NoneStr, save_tokens(f, r.token, off), kind,
                <<kind>>, <<resp>>)

\* login_with_password / refresh: request, then save_tokens, then
\* last_auth_method, then return.
grant(kind, f, auth, resp, nowdt, off) ==
    LET r == login_request(resp, nowdt) IN
    IF r.exc # "none"
    THEN Result(r.exc, r.msg, None, NoneStr, f, auth, <<kind>>, <<resp>>)
    ELSE Result("none", <<>>, r.token, NoneStr, save_tokens(f, r.token, off), kind,
                <<kind>>, <<resp>>)

login_with_password(f, auth, resp, nowdt, off) == grant("password", f, auth, resp, nowdt, off)

refresh(f, auth, resp, nowdt, off) == grant("refresh", f, auth, resp, nowdt, off)

\* A missing credential and a rejected refresh give None; last_auth_method
\* is set only by a refresh that succeeds.
get_valid_access_token(f, auth, r1, nowdt, off) ==
    LET ld == load_tokens(f, nowdt, off) IN
    IF ld.exc # "none" THEN Result(ld.exc, <<>>, None, NoneStr, f, auth, <<>>, <<>>)
    ELSE IF IsNone(ld.token) THEN Result("none", <<>>, None, NoneStr, f, auth, <<>>, <<>>)
    ELSE IF is_expired(ld.token, nowdt, DefaultMargin)
    THEN LET new == refresh(f, auth, r1, nowdt, off) IN
         IF new.exc = "none" THEN [new EXCEPT !.retStr = new.token.access_token]
         ELSE IF new.exc = "LoginError"
         THEN Result("none", <<>>, None, NoneStr, f, auth, new.reqs, new.resps)
         ELSE new
    ELSE Result("none", <<>>, ld.token, ld.token.access_token, f, auth, <<>>, <<>>)

get_access_token(f, auth, r1, nowdt, off) ==
    LET ld == load_tokens(f, nowdt, off) IN
    IF ld.exc # "none" THEN Result(ld.exc, <<>>, None, NoneStr, f, auth, <<>>, <<>>)
    ELSE IF IsNone(ld.token)
    THEN Result("LoginError", <<"No tokens available; please login first">>, None, NoneStr,
                f, auth, <<>>, <<>>)
    ELSE IF is_expired(ld.token, nowdt, DefaultMargin)
    THEN LET new == refresh(f, auth, r1, nowdt, off) IN
         IF new.exc = "none" THEN [new EXCEPT !.retStr = new.token.access_token]
         ELSE IF new.exc = "LoginError"
         THEN [new EXCEPT !.msg = <<"Failed to refresh token: ">> \o new.msg]
         ELSE new
    ELSE Result("none", <<>>, ld.token, ld.token.access_token, f,
                IF Truthy(auth) THEN auth ELSE "cached", <<>>, <<>>)

password_or_fail(f, auth, u, p, r2, nowdt, off, reqs, resps) ==
    IF Truthy(u) /\ Truthy(p)
    THEN LET tok == login_with_password(f, auth, r2, nowdt, off) IN
         [tok EXCEPT !.reqs = reqs \o tok.reqs, !.resps = resps \o tok.resps]
    ELSE Result("LoginError", <<"No valid tokens available and no credentials provided">>,
                None, NoneStr, f, auth, reqs, resps)

authenticate(f, auth, u, p, r1, r2, nowdt, off) ==
    LET ld == load_tokens(f, nowdt, off) IN
    IF ld.exc # "none" THEN Result(ld.exc, <<>>, None, NoneStr, f, auth, <<>>, <<>>)
    ELSE IF ~ IsNone(ld.token)
    THEN IF ~ is_expired(ld.token, nowdt, DefaultMargin)
         THEN Result("none", <<>>, ld.token, NoneStr, f, "cached", <<>>, <<>>)
         ELSE LET new == refresh(f, auth, r1, nowdt, off) IN
              IF new.exc = "none" THEN [new EXCEPT !.auth = "refresh"]
              ELSE IF new.exc = "LoginError"
              THEN password_or_fail(f, auth, u, p, r2, nowdt, off, new.reqs, new.resps)
              ELSE new
    ELSE password_or_fail(f, auth, u, p, r2, nowdt, off, <<>>, <<>>)

\* ------------------------------------------------------------ state machine
Credentials == {<<"user", NoneStr>>, <<"user", "pw">>}

InitialFiles ==
    { NoFile, NotJson, JsonArray,
      JsonObject("access_token" :> "a0"),
      JsonObject("access_token" :> "a0" @@ "refresh_token" :> "r0" @@ "expires_in" :> 11),
      JsonObject("access_token" :> "a0" @@ "refresh_token" :> "r0" @@ "id_token" :> "i0"
                 @@ "token_type" :> "Bearer" @@ "expires_in" :> 11
                 @@ "obtained_at" :> Epoch0 @@ "api_version" :> "3.0") }

TzOffsets == {0, 3600}

Call(op, u, p, r) ==
    [seq |-> 1 - call.seq, op |-> op, username |-> u, password |-> p,
     reqs |-> r.reqs, resps |-> r.resps, exc |-> r.exc, msg |-> r.msg,
     token |-> r.token, retStr |-> r.retStr]

\* No formatter call and no API call has been made.
FmtIdle == [seq |-> 0, op |-> "idle", data |-> <<>>, res |-> [exc |-> "none", out |-> ""]]

ApiIdle ==
    [seq |-> 0, op |-> "idle", grant |-> [net |-> "unused"], sent |-> FALSE, bearer |-> NoneStr,
     resp |-> [net |-> "unused"], exc |-> "none", msg |-> <<>>, ret |-> NoneStr]

NoCall ==
    [seq |-> 0, op |-> "init", username |-> NoneStr, password |-> NoneStr,
     reqs |-> <<>>, resps |-> <<>>,
     exc |-> "none", msg |-> <<>>, token |-> None, retStr |-> NoneStr]

Init ==
    /\ now = Epoch0
    /\ frac = 0
    /\ tz \in TzOffsets
    /\ file \in InitialFiles
    /\ last_auth_method = NoneStr
    /\ call = NoCall
    /\ fmt = FmtIdle
    /\ api = ApiIdle

Finish(op, u, p, r) ==
    /\ file' = r.file
    /\ last_auth_method' = r.auth
    /\ call' = Call(op, u, p, r)
    /\ UNCHANGED <<now, frac, tz, fmt, api>>

\* The answers a call can consume: one per request it sends.
Answers(used) == IF used THEN Responses ELSE {NoResp}

Stored == load_tokens(file, DT(now, frac), tz).token

StoredExpired == ~ IsNone(Stored) /\ is_expired(Stored, DT(now, frac), DefaultMargin)

Authenticate ==
    \E c \in Credentials :
      LET u == c[1]
          p == c[2] IN
      \E r1 \in Answers(StoredExpired) :
        \E r2 \in Answers(Truthy(u) /\ Truthy(p)
                          /\ (IsNone(Stored)
                              \/ (StoredExpired /\ login_request(r1, DT(now, frac)).exc = "LoginError"))) :
          Finish("authenticate", u, p,
                 authenticate(file, last_auth_method, u, p, r1, r2, DT(now, frac), tz))

GetAccessToken ==
    \E r1 \in Answers(StoredExpired) :
      Finish("get_access_token", NoneStr, NoneStr,
             get_access_token(file, last_auth_method, r1, DT(now, frac), tz))

GetValidAccessToken ==
    \E r1 \in Answers(StoredExpired) :
      Finish("get_valid_access_token", NoneStr, NoneStr,
             get_valid_access_token(file, last_auth_method, r1, DT(now, frac), tz))

LoginWithPassword ==
    \E r \in Responses :
      Finish("login_with_password", "user", "pw",
             login_with_password(file, last_auth_method, r, DT(now, frac), tz))

Refresh ==
    \E r \in Responses :
      Finish("refresh", NoneStr, NoneStr,
             refresh(file, last_auth_method, r, DT(now, frac), tz))

\* The clock: within the second, or on to a later second.
SubTick ==
    /\ frac = 0
    /\ now - Epoch0 < FineSpan
    /\ frac' = 1
    /\ UNCHANGED <<now, tz, file, last_auth_method, call, fmt, api>>

Tick ==
    \E d \in {1, LongStep} :
      /\ d = 1 => now - Epoch0 < FineSpan
      /\ now + d <= Epoch0 + MaxTime
      /\ now' = now + d
      /\ frac' = 0
      /\ UNCHANGED <<tz, file, last_auth_method, call, fmt, api>>

Next ==
    \/ Authenticate
    \/ GetAccessToken
    \/ GetValidAccessToken
    \/ LoginWithPassword
    \/ Refresh
    \/ SubTick
    \/ Tick

Spec == Init /\ [][Next]_vars

\* ---------------------------------------------------- vocabulary of claims
UtcNow == DT(now, frac)

\* A step that is a call of the method op.
CallOf(op) == call'.seq # call.seq /\ call'.op = op

\* The file is a JSON object with both required fields.
HoldsCredential(f) ==
    f.kind = "object" /\ {"access_token", "refresh_token"} \subseteq DOMAIN f.data

\* The credential the file states, read at the current instant.
StoredCredential == from_dict(file, UtcNow, tz).token

\* now + 10s < obtained_at + expires_in
Unexpired(t, nowdt) ==
    \/ nowdt.s + 10 < t.obtained_at.s + t.expires_in
    \/ /\ nowdt.s + 10 = t.obtained_at.s + t.expires_in
       /\ nowdt.us < t.obtained_at.us

\* The endpoint granted the request: 200 with a JSON object carrying both tokens.
GrantSucceeds(resp) ==
    /\ resp.net = "ok"
    /\ resp.json = "object"
    /\ resp.status = 200
    /\ Truthy(Get(resp.body, "access_token", NoneStr))
    /\ Truthy(Get(resp.body, "refresh_token", NoneStr))

Supplied(c) == Truthy(c.username) /\ Truthy(c.password)

Last(q) == q[Len(q)]

Elems(q) == {q[i] : i \in 1 .. Len(q)}

\* The file holds all of the credential t and nothing else.
Persisted(f, t) ==
    /\ f.kind = "object"
    /\ DOMAIN f.data = StoredKeys \cup DOMAIN t.extra
    /\ f.data["access_token"] = t.access_token
    /\ f.data["refresh_token"] = t.refresh_token
    /\ f.data["id_token"] = t.id_token
    /\ f.data["token_type"] = t.token_type
    /\ f.data["expires_in"] = t.expires_in
    /\ \A k \in DOMAIN t.extra : f.data[k] = t.extra[k]

\* ------------------------------------------------------------------ claims
\* C1: when authenticate() is called while the token file holds a credential
\* with now + 10s < obtained_at + expires_in, it returns exactly that
\* credential, sets last_auth_method to "cached", sends no grant request and
\* leaves the file alone, with or without username/password.
C1_CachedWithoutRequest ==
    [][ (/\ CallOf("authenticate")
         /\ HoldsCredential(file)
         /\ Unexpired(StoredCredential, UtcNow))
        => (/\ call'.exc = "none"
            /\ call'.token = StoredCredential
            /\ last_auth_method' = "cached"
            /\ call'.reqs = <<>>
            /\ file' = file) ]_vars

C1_Witness ==
    /\ call.op = "authenticate"
    /\ call.password = "pw"
    /\ call.exc = "none"
    /\ call.reqs = <<>>
    /\ last_auth_method = "cached"
    /\ ~ IsNone(call.token)
    /\ Unexpired(call.token, UtcNow)

\* C2: authenticate() on an expired stored credential: if the refresh grant
\* succeeds, the new credential is persisted and returned, the state is
\* "refresh" and no password grant is sent; if the refresh grant fails for
\* any reason and username and password are supplied, a password grant is
\* sent, and when granted its credential is persisted and returned with
\* state "password".
C2_RefreshThenPassword ==
    [][ (/\ CallOf("authenticate")
         /\ HoldsCredential(file)
         /\ ~ Unexpired(StoredCredential, UtcNow))
        => (/\ call'.reqs # <<>>
            /\ call'.reqs[1] = "refresh"
            /\ GrantSucceeds(call'.resps[1])
                 => (/\ call'.reqs = <<"refresh">>
                     /\ call'.exc = "none"
                     /\ last_auth_method' = "refresh"
                     /\ Persisted(file', call'.token))
            /\ (~ GrantSucceeds(call'.resps[1]) /\ Supplied(call'))
                 => (/\ call'.reqs = <<"refresh", "password">>
                     /\ GrantSucceeds(call'.resps[2])
                          => (/\ call'.exc = "none"
                              /\ last_auth_method' = "password"
                              /\ Persisted(file', call'.token)))) ]_vars

\* C3: authenticate() with no usable stored credential (none, unparsable, or
\* expired with a failed refresh) and username or password missing raises
\* LoginError, returns nothing, sends no password grant and leaves the file
\* and last_auth_method unchanged.
C3_NoFallbackFails ==
    [][ (/\ CallOf("authenticate")
         /\ ~ Supplied(call')
         /\ \/ ~ HoldsCredential(file)
            \/ /\ ~ Unexpired(StoredCredential, UtcNow)
               /\ call'.resps # <<>>
               /\ ~ GrantSucceeds(call'.resps[1]))
        => (/\ call'.exc = "LoginError"
            /\ IsNone(call'.token)
            /\ "password" \notin Elems(call'.reqs)
            /\ file' = file
            /\ last_auth_method' = last_auth_method) ]_vars

\* C4: get_access_token() never sends a password grant; it returns the stored
\* access token when the stored credential is unexpired, the refreshed
\* credential's access token when it is expired and the refresh is granted,
\* and raises LoginError when nothing is stored or the refresh grant fails.
C4_GetAccessToken ==
    [][ CallOf("get_access_token")
        => (/\ "password" \notin Elems(call'.reqs)
            /\ (HoldsCredential(file) /\ Unexpired(StoredCredential, UtcNow))
                 => (/\ call'.exc = "none"
                     /\ call'.reqs = <<>>
                     /\ call'.retStr = StoredCredential.access_token)
            /\ (HoldsCredential(file) /\ ~ Unexpired(StoredCredential, UtcNow))
                 => (/\ call'.reqs = <<"refresh">>
                     /\ GrantSucceeds(call'.resps[1])
                          => (/\ call'.exc = "none"
                              /\ call'.retStr = call'.resps[1].body["access_token"])
                     /\ ~ GrantSucceeds(call'.resps[1]) => call'.exc = "LoginError")
            /\ ~ HoldsCredential(file) => call'.exc = "LoginError") ]_vars

\* C5: the token a successful get_access_token() returns belongs to a
\* credential that is not expired at the moment of return
\* (now + 10s < obtained_at + expires_in).
C5_ReturnedTokenUnexpired ==
    [][ (CallOf("get_access_token") /\ call'.exc = "none")
        => (/\ ~ IsNone(call'.token)
            /\ call'.retStr = call'.token.access_token
            /\ Unexpired(call'.token, UtcNow)) ]_vars

\* C6: every granted request (password or refresh) leaves the token file
\* holding exactly the new credential - no key of the previous file survives
\* unless the new credential carries it - and last_auth_method naming the
\* grant kind, and the call returns that credential.
C6_GrantOverwrites ==
    [][ (/\ call'.seq # call.seq
         /\ call'.reqs # <<>>
         /\ GrantSucceeds(Last(call'.resps)))
        => (/\ call'.exc = "none"
            /\ call'.token.access_token = Last(call'.resps).body["access_token"]
            /\ call'.token.refresh_token = Last(call'.resps).body["refresh_token"]
            /\ call'.token.extra = [k \in (DOMAIN Last(call'.resps).body) \ TokenKeys |->
                                      Last(call'.resps).body[k]]
            /\ Persisted(file', call'.token)
            /\ last_auth_method' = Last(call'.reqs)) ]_vars

C6_Witness ==
    /\ call.reqs = <<"refresh">>
    /\ GrantSucceeds(call.resps[1])
    /\ "scope" \in DOMAIN call.resps[1].body
    /\ last_auth_method = "refresh"
    /\ Persisted(file, call.token)
    /\ "api_version" \notin DOMAIN file.data

\* C7: every failure of a grant request reaches the caller as LoginError: a
\* network failure or timeout, a non-200 answer (with the server's error
\* description when present, else the raw status and body), a body that is
\* not JSON (a LoginError distinct from the others), a 200 answer without
\* access_token or refresh_token.
C7_GrantFailureIsLoginError ==
    [][ (/\ call'.seq # call.seq
         /\ call'.op \in {"login_with_password", "refresh"}
         /\ ~ GrantSucceeds(call'.resps[1]))
        => LET resp == call'.resps[1] IN
           /\ call'.exc = "LoginError"
           /\ (resp.net = "ok" /\ resp.json = "invalid")
                => call'.msg[1] = "Invalid response from server: "
           /\ (resp.net = "ok" /\ resp.json # "invalid")
                => call'.msg[1] # "Invalid response from server: "
           /\ (resp.net = "ok" /\ resp.json = "object" /\ resp.status # 200)
                => IF "error_description" \in DOMAIN resp.body
                   THEN resp.body["error_description"] \in Elems(call'.msg)
                   ELSE {StatusStr(resp.status), resp.text} \subseteq Elems(call'.msg) ]_vars

\* C8: load_tokens() yields None and raises nothing when the file is missing,
\* is not JSON, or is JSON lacking access_token or refresh_token; an
\* authenticate() with username and password then sends exactly one password
\* grant and, when it is granted, returns and persists its credential with
\* state "password".
C8_CorruptFileRecovers ==
    [][ /\ ~ HoldsCredential(file)
          => load_tokens(file, UtcNow, tz) = [exc |-> "none", token |-> None]
        /\ (CallOf("authenticate") /\ ~ HoldsCredential(file) /\ Supplied(call'))
          => (/\ call'.reqs = <<"password">>
              /\ GrantSucceeds(call'.resps[1])
                   => (/\ call'.exc = "none"
                       /\ last_auth_method' = "password"
                       /\ Persisted(file', call'.token))) ]_vars

C8_Witness ==
    /\ call.op = "authenticate"
    /\ call.reqs = <<"password">>
    /\ GrantSucceeds(call.resps[1])
    /\ call.exc = "none"
    /\ last_auth_method = "password"
    /\ Persisted(file, call.token)

\* C9: load_tokens() after save_tokens(C) yields a credential equal to C in
\* every field, for every credential C a grant produces.
C9_RoundTrip ==
    (call.reqs # <<>> /\ call.exc = "none")
      => load_tokens(file, UtcNow, tz) = [exc |-> "none", token |-> call.token]

\* C10 as stated: for every credential with expires_in > 0, is_expired is
\* false at the instant of creation and true at every instant after
\* obtained_at + expires_in.
C10_AsStated ==
    (~ IsNone(call.token) /\ call.token.expires_in > 0)
      => (/\ UtcNow = call.token.obtained_at
               => ~ is_expired(call.token, UtcNow, DefaultMargin)
          /\ (DtGeq(UtcNow, expires_at(call.token)) /\ UtcNow # expires_at(call.token))
               => is_expired(call.token, UtcNow, DefaultMargin))

\* C10 amended: for every credential with expires_in > 10 (the default
\* margin), is_expired is false at the instant of creation; for every
\* credential with expires_in > 0 it is true at every instant after
\* obtained_at + expires_in.
C10_ExpiryWithMargin ==
    (~ IsNone(call.token) /\ call.token.expires_in > 0)
      => (/\ (UtcNow = call.token.obtained_at /\ call.token.expires_in > 10)
               => ~ is_expired(call.token, UtcNow, DefaultMargin)
          /\ (DtGeq(UtcNow, expires_at(call.token)) /\ UtcNow # expires_at(call.token))
               => is_expired(call.token, UtcNow, DefaultMargin))

C10_Witness ==
    /\ ~ IsNone(call.token)
    /\ call.reqs # <<>>
    /\ call.token.expires_in > 10
    /\ DtGeq(UtcNow, expires_at(call.token))
    /\ UtcNow # expires_at(call.token)
    /\ is_expired(call.token, UtcNow, DefaultMargin)

\* C11: no automatic retry.  One authenticate() call sends at most one
\* refresh grant followed by at most one password grant (never one grant
\* twice, never the password grant before the refresh attempt); one
\* get_access_token() call sends at most one refresh grant and nothing else;
\* one refresh() or login_with_password() call sends exactly one request, so
\* a failed or timed-out request is never sent again.
C11_NoRetry ==
    /\ call.op = "authenticate"
         => call.reqs \in {<<>>, <<"refresh">>, <<"password">>, <<"refresh", "password">>}
    /\ call.op = "get_access_token" => call.reqs \in {<<>>, <<"refresh">>}
    /\ call.op = "refresh" => call.reqs = <<"refresh">>
    /\ call.op = "login_with_password" => call.reqs = <<"password">>
    /\ Len(call.resps) = Len(call.reqs)
    /\ \A i \in 1 .. Len(call.reqs) - 1 : ~ GrantSucceeds(call.resps[i])

C11_Witness ==
    /\ call.op = "authenticate"
    /\ call.reqs = <<"refresh", "password">>
    /\ call.resps[1].net = "ok"
    /\ call.resps[2].net = "error"
    /\ call.exc = "RequestException"

\* A call whose last grant request was granted, and one whose requests all
\* failed.
Granted(c) == c.reqs # <<>> /\ GrantSucceeds(Last(c.resps))

AllFailed(c) == c.reqs # <<>> /\ \A i \in 1 .. Len(c.resps) : ~ GrantSucceeds(c.resps[i])

Ch(s, i) == SubSeq(s, i, i)

\* str.lower() on one character.
LowerCh(c) ==
    LET upper == "ABCDEFGHIJKLMNOPQRSTUVWXYZ$^~"
        lower == "abcdefghijklmnopqrstuvwxyz@%_"
    IN IF \E i \in 1 .. Len(upper) : Ch(upper, i) = c
       THEN Ch(lower, CHOOSE i \in 1 .. Len(upper) : Ch(upper, i) = c)
       ELSE c

RECURSIVE Lower(_)
Lower(s) == IF s = "" THEN "" ELSE LowerCh(Head(s)) \o Lower(Tail(s))

\* \s of the regular expressions, and the characters str.strip() removes.
IsSpace(c) == c = " "

RECURSIVE LStrip(_)
LStrip(s) == IF s # "" /\ IsSpace(Head(s)) THEN LStrip(Tail(s)) ELSE s

RECURSIVE RStrip(_)
RStrip(s) ==
    IF s # "" /\ IsSpace(Ch(s, Len(s))) THEN RStrip(SubSeq(s, 1, Len(s) - 1)) ELSE s

Strip(s) == RStrip(LStrip(s))

\* sub in s
Contains(s, sub) ==
    \E i \in 1 .. Len(s) - Len(sub) + 1 : SubSeq(s, i, i + Len(sub) - 1) = sub

\* Index of the first c in s at or after position from; 0 when there is none.
Find(s, c, from) ==
    IF \E i \in from .. Len(s) : Ch(s, i) = c
    THEN CHOOSE i \in from .. Len(s) :
           Ch(s, i) = c /\ \A k \in from .. i - 1 : Ch(s, k) # c
    ELSE 0

\* re.sub(r"\s+", " ", s)
RECURSIVE CollapseSpaces(_)
CollapseSpaces(s) ==
    IF s = "" THEN ""
    ELSE IF IsSpace(Head(s)) THEN " " \o CollapseSpaces(LStrip(s))
    ELSE Head(s) \o CollapseSpaces(Tail(s))

\* re.sub(r"\s+", " ", s).strip()
Normalize(s) == Strip(CollapseSpaces(s))

IsDigit(c) == c # "" /\ Contains("0123456789", c)

DigitVal(c) == (CHOOSE i \in 1 .. 10 : Ch("0123456789", i) = c) - 1

AllDigits(s) == s # "" /\ \A i \in 1 .. Len(s) : IsDigit(Ch(s, i))

RECURSIVE DigitsToInt(_)
DigitsToInt(s) ==
    IF s = "" THEN 0
    ELSE 10 * DigitsToInt(SubSeq(s, 1, Len(s) - 1)) + DigitVal(Ch(s, Len(s)))

\* str(n) for n >= 0
RECURSIVE IntToStr(_)
IntToStr(n) ==
    IF n < 10 THEN Ch("0123456789", n + 1)
    ELSE IntToStr(n \div 10) \o Ch("0123456789", (n % 10) + 1)

\* f"{n:02d}"
Pad2(n) == IF n < 10 THEN "0" \o IntToStr(n) ELSE IntToStr(n)

\* f"{n:04d}"
\* A JSON identifier is an integer or a string: [t, v].  int(x) is [ok, v];
\* int() of a string ignores surrounding whitespace.
JInt(n) == [t |-> "int", v |-> n]

JStr(x) == [t |-> "str", v |-> x]

to_int(x) ==
    IF x.t = "int" THEN [ok |-> TRUE, v |-> x.v]
    ELSE IF AllDigits(Strip(x.v)) THEN [ok |-> TRUE, v |-> DigitsToInt(Strip(x.v))]
    ELSE [ok |-> FALSE, v |-> 0]

\* str(x)
to_str(x) == IF x.t = "int" THEN IntToStr(x.v) ELSE x.v

\* ----------------------------------------------------- datetime.fromisoformat
IsLeap(y) == y % 4 = 0 /\ (y % 100 # 0 \/ y % 400 = 0)

DaysInMonth(y, m) ==
    IF m = 2 THEN (IF IsLeap(y) THEN 29 ELSE 28)
    ELSE IF m \in {4, 6, 9, 11} THEN 30 ELSE 31

RECURSIVE DaysBeforeMonth(_, _)
DaysBeforeMonth(y, m) ==
    IF m = 1 THEN 0 ELSE DaysBeforeMonth(y, m - 1) + DaysInMonth(y, m - 1)

\* date.toordinal()
ToOrdinal(y, m, d) ==
    (y - 1) * 365 + ((y - 1) \div 4) - ((y - 1) \div 100) + ((y - 1) \div 400)
      + DaysBeforeMonth(y, m) + d

\* date.weekday(): 0 = Monday
weekday(y, m, d) == (ToOrdinal(y, m, d) + 6) % 7

NoDate == [ok |-> FALSE, y |-> 0, m |-> 0, d |-> 0]

\* "YYYY-MM-DD"
parse_date(s) ==
    IF /\ Len(s) = 10
       /\ Ch(s, 5) = "-"
       /\ Ch(s, 8) = "-"
       /\ AllDigits(SubSeq(s, 1, 4))
       /\ AllDigits(SubSeq(s, 6, 7))
       /\ AllDigits(SubSeq(s, 9, 10))
    THEN LET y == DigitsToInt(SubSeq(s, 1, 4))
             m == DigitsToInt(SubSeq(s, 6, 7))
             d == DigitsToInt(SubSeq(s, 9, 10))
         IN IF y >= 1 /\ m \in 1 .. 12 /\ d >= 1 /\ d <= DaysInMonth(y, m)
            THEN [ok |-> TRUE, y |-> y, m |-> m, d |-> d]
            ELSE NoDate
    ELSE NoDate

\* "HH:MM" or "HH:MM:SS"
parse_clock(t) ==
    /\ Len(t) \in {5, 8}
    /\ AllDigits(SubSeq(t, 1, 2))
    /\ DigitsToInt(SubSeq(t, 1, 2)) < 24
    /\ Ch(t, 3) = ":"
    /\ AllDigits(SubSeq(t, 4, 5))
    /\ DigitsToInt(SubSeq(t, 4, 5)) < 60
    /\ Len(t) = 8 => (/\ Ch(t, 6) = ":"
                      /\ AllDigits(SubSeq(t, 7, 8))
                      /\ DigitsToInt(SubSeq(t, 7, 8)) < 60)

\* The time part: a clock, optionally followed by a UTC offset "+HH:MM".
parse_time(t) ==
    \/ parse_clock(t)
    \/ \E n \in {5, 8} :
         /\ Len(t) = n + 6
         /\ parse_clock(SubSeq(t, 1, n))
         /\ Ch(t, n + 1) \in {"+", "-"}
         /\ parse_clock(SubSeq(t, n + 2, n + 6))

\* datetime.fromisoformat(s): a date, or a date, one separator character
\* and a time.  The date fields of the result are those of the date part.
fromisoformat(s) ==
    IF Len(s) = 10 THEN parse_date(s)
    ELSE IF Len(s) > 11 /\ parse_time(SubSeq(s, 12, Len(s)))
    THEN parse_date(SubSeq(s, 1, 10))
    ELSE NoDate

\* raw_date.split("T", 1)[0]
before_T(s) == IF Find(s, "T", 1) = 0 THEN s ELSE SubSeq(s, 1, Find(s, "T", 1) - 1)

weekday_names == <<"Po", "~t", "St", "^t", "P&", "So", "Ne">>

\* ------------------------------------------- subject-change patterns (re)
\* Each pattern is a prefix of words separated by \s+, followed by
\*    [:\s]+([^\(]+)\s*\(([^\)]+)\)
\* A word is a sequence of character sets; matching ignores case.
Lit(w) == [i \in 1 .. Len(w) |-> {Ch(w, i)}]

patterns ==
    LET zmena == Lit("zm") \o <<{"e", "@"}>> \o Lit("na")
        predmetu == Lit("p#edm") \o <<{"i", "@"}>> \o Lit("tu")
    IN << <<zmena, predmetu>>,
          <<zmena>>,
          <<Lit("change"), Lit("of"), Lit("subject")>>,
          <<Lit("subject"), Lit("change")>> >>

IsSep(c) == c = ":" \/ IsSpace(c)

\* First index at or after i whose character is not a space (Len + 1 if none).
SpaceRunEnd(s, i) ==
    CHOOSE j \in i .. Len(s) + 1 :
      /\ \A k \in i .. j - 1 : IsSpace(Ch(s, k))
      /\ j <= Len(s) => ~ IsSpace(Ch(s, j))

SepRunEnd(s, i) ==
    CHOOSE j \in i .. Len(s) + 1 :
      /\ \A k \in i .. j - 1 : IsSep(Ch(s, k))
      /\ j <= Len(s) => ~ IsSep(Ch(s, j))

\* Index after the prefix matched at i, 0 when it does not match there.
RECURSIVE MatchWords(_, _, _)
MatchWords(s, i, words) ==
    LET w == Head(words) IN
    IF ~ (/\ i + Len(w) - 1 <= Len(s)
          /\ \A k \in 1 .. Len(w) : LowerCh(Ch(s, i + k - 1)) \in w[k])
    THEN 0
    ELSE LET j == i + Len(w) IN
         IF Len(words) = 1 THEN j
         ELSE IF j <= Len(s) /\ IsSpace(Ch(s, j))
         THEN MatchWords(s, SpaceRunEnd(s, j), Tail(words))
         ELSE 0

NoMatch == [ok |-> FALSE, g1 |-> "", g2 |-> ""]

\* The match of the whole pattern starting at i.  Neither the separator nor
\* group 1 can contain "(", so the "(" is the first one after the prefix; the
\* greedy separator gives back one character when it would leave group 1
\* empty; group 2 runs to the first ")".
MatchAt(s, i, words) ==
    LET j == MatchWords(s, i, words) IN
    IF j = 0 \/ j > Len(s) THEN NoMatch
    ELSE IF ~ IsSep(Ch(s, j)) THEN NoMatch
    ELSE LET q == Find(s, "(", j) IN
      IF q = 0 \/ q - j < 2 THEN NoMatch
      ELSE LET r == Find(s, ")", q + 1) IN
        IF r = 0 \/ r < q + 2 THEN NoMatch
        ELSE LET e == SepRunEnd(s, j)
                 g == IF e < q - 1 THEN e ELSE q - 1
             IN [ok |-> TRUE, g1 |-> SubSeq(s, g, q - 1), g2 |-> SubSeq(s, q + 1, r - 1)]

\* re.search(pat, s, re.IGNORECASE): the match at the leftmost start.
re_search(s, words) ==
    IF \E i \in 1 .. Len(s) : MatchAt(s, i, words).ok
    THEN MatchAt(s, CHOOSE i \in 1 .. Len(s) :
                      /\ MatchAt(s, i, words).ok
                      /\ \A k \in 1 .. i - 1 : ~ MatchAt(s, k, words).ok, words)
    ELSE NoMatch

\* The first pattern of pats that matches desc: [ok, old, new].
RECURSIVE first_match(_, _)
first_match(desc, pats) ==
    IF pats = <<>> THEN [ok |-> FALSE, old |-> "", new |-> ""]
    ELSE LET m == re_search(desc, Head(pats)) IN
         IF m.ok THEN [ok |-> TRUE, old |-> Normalize(m.g2), new |-> Normalize(m.g1)]
         ELSE first_match(desc, Tail(pats))

subject_change(desc) == first_match(desc, patterns)

\* --------------------------------------------------- TimetableClient maps
\* A JSON object is a function from its keys; an absent key is a missing one.
\* x or y on strings
Or(x, y) == IF x # "" THEN x ELSE y

\* A JSON value that is a list, and one that is not iterable (a number).
JList(items) == [kind |-> "list", items |-> items]

JNumber == [kind |-> "number", items |-> <<>>]

\* hour_map: int(Id) -> (BeginTime, EndTime); an element whose Id is missing
\* or not an integer is skipped, a later element replaces an earlier one.
RECURSIVE hour_map(_)
hour_map(hours_list) ==
    IF hours_list = <<>> THEN [k \in {} |-> <<"", "">>]
    ELSE LET n == Len(hours_list)
             hh == hours_list[n]
             rest == hour_map(SubSeq(hours_list, 1, n - 1))
         IN IF "Id" \in DOMAIN hh /\ to_int(hh.Id).ok
            THEN (to_int(hh.Id).v :> <<Get(hh, "BeginTime", ""), Get(hh, "EndTime", "")>>) @@ rest
            ELSE rest

\* subject_map: stripped Id -> Abbrev or Name or the stripped Id.
RECURSIVE subject_map(_)
subject_map(subjects_list) ==
    IF subjects_list = <<>> THEN [k \in {} |-> ""]
    ELSE LET n == Len(subjects_list)
             sj == subjects_list[n]
             sid == Strip(Get(sj, "Id", ""))
         IN (sid :> Or(Get(sj, "Abbrev", ""), Or(Get(sj, "Name", ""), sid)))
              @@ subject_map(SubSeq(subjects_list, 1, n - 1))

\* bt, et = hour_map.get(hid_int, ("", "")) with hid_int = int(hid), or hid
\* itself (never a key of hour_map) when int() fails.
hour_times(hm, hid) ==
    IF to_int(hid).ok /\ to_int(hid).v \in DOMAIN hm THEN hm[to_int(hid).v] ELSE <<"", "">>

span(t) == t[1] \o "-" \o t[2]

subject_of(atom, sm) ==
    LET subj_id == Strip(Get(atom, "SubjectId", "")) IN Get(sm, subj_id, subj_id)

\* if change: a change record that is present and not empty
has_change(atom) == "Change" \in DOMAIN atom /\ DOMAIN atom.Change # {}

\* desc of an atom's change record; "" for an atom without one.
change_desc(atom) ==
    IF has_change(atom)
    THEN Strip(Or(Get(atom.Change, "Description", ""), Get(atom.Change, "ChangeType", "")))
    ELSE ""

\* --------------------------------------------- TimetableClient.format_text
label_english == "Substitution"

label == "Suplov&n!"

text_range(atom, hm) ==
    LET t == hour_times(hm, atom.HourId) IN
    IF t[1] # "" \/ t[2] # "" THEN span(t) ELSE to_str(atom.HourId)

\* The prefix of an entry: the range and a space, nothing without HourId.
range_prefix(atom, hm) ==
    IF "HourId" \in DOMAIN atom THEN text_range(atom, hm) \o " " ELSE ""

teacher_of(desc) ==
    Normalize(IF Find(desc, ":", 1) # 0
              THEN Strip(SubSeq(desc, Find(desc, ":", 1) + 1, Len(desc)))
              ELSE desc)

is_substitution(desc) == Contains(Lower(desc), "supl") \/ Contains(Lower(desc), "substitut")

text_entry_supl_first(atom, hm, sm) ==
    LET pre == range_prefix(atom, hm)
        subj == subject_of(atom, sm)
        desc == change_desc(atom)
        m == subject_change(desc)
    IN IF ~ has_change(atom) THEN pre \o subj
       ELSE IF is_substitution(desc)
       THEN pre \o subj \o " (" \o label \o ": " \o teacher_of(desc) \o ")"
       ELSE IF m.ok THEN pre \o m.old \o " -> " \o m.new
       ELSE IF desc # "" THEN pre \o desc
       ELSE pre \o subj

text_entry(atom, hm, sm) ==
    LET pre == range_prefix(atom, hm)
        subj == subject_of(atom, sm)
        desc == change_desc(atom)
        m == subject_change(desc)
    IN IF ~ has_change(atom) THEN pre \o subj
       ELSE IF m.ok THEN pre \o m.old \o " -> " \o m.new
       ELSE IF is_substitution(desc)
       THEN pre \o subj \o " (" \o label \o ": " \o teacher_of(desc) \o ")"
       ELSE IF desc # "" THEN pre \o desc
       ELSE pre \o subj

RECURSIVE Join(_, _)
Join(sep, items) ==
    IF items = <<>> THEN ""
    ELSE IF Len(items) = 1 THEN items[1]
    ELSE items[1] \o sep \o Join(sep, Tail(items))

\* raw_date = day.get("Date") or day.get("DayName") or None ("" for None)
raw_date_of(day) == Or(Get(day, "Date", ""), Get(day, "DayName", ""))

date_short_of(dt) == Pad2(dt.d) \o "." \o Pad2(dt.m) \o "." \o IntToStr(dt.y)

day_header_noname(day) ==
    LET raw == raw_date_of(day)
        dt == IF fromisoformat(raw).ok THEN fromisoformat(raw) ELSE fromisoformat(before_T(raw))
    IN IF raw = "" THEN [date_short |-> "", weekday |-> ""]
       ELSE IF dt.ok
       THEN [date_short |-> date_short_of(dt), weekday |-> weekday_names[weekday(dt.y, dt.m, dt.d) + 1]]
       ELSE [date_short |-> raw, weekday |-> ""]

day_header(day) ==
    LET raw == raw_date_of(day)
        dt == IF fromisoformat(raw).ok THEN fromisoformat(raw) ELSE fromisoformat(before_T(raw))
    IN IF raw = "" THEN [date_short |-> "", weekday |-> ""]
       ELSE IF dt.ok
       THEN [date_short |-> date_short_of(dt), weekday |-> weekday_names[weekday(dt.y, dt.m, dt.d) + 1]]
       ELSE [date_short |-> raw, weekday |-> Get(day, "DayName", "")]

atoms_of(day) == Get(day, "Atoms", <<>>)

is_celebration(day) == Get(day, "DayType", "") = "Celebration"

text_line(day, hm, sm) ==
    LET entries == [i \in 1 .. Len(atoms_of(day)) |-> text_entry(atoms_of(day)[i], hm, sm)]
        line == IF entries = <<>> THEN "(no hours)" ELSE Join(" | ", entries)
        h == day_header(day)
        plain == h.date_short \o " - " \o h.weekday
        dd == Get(day, "DayDescription", "")
        header == IF is_celebration(day) /\ dd # ""
                  THEN "** Celebration: " \o dd \o " ** " \o plain
                  ELSE plain
    IN header \o " -- " \o line

\* The result of a formatter call: the exception raised ("none" for a
\* return) and the value returned.
Returned(v) == [exc |-> "none", out |-> v]

Raised(e) == [exc |-> e, out |-> ""]

days_of(data) == Get(data, "Days", <<>>)

hours_of(data) == Get(data, "Hours", JList(<<>>))

subjects_of(data) == Get(data, "Subjects", JList(<<>>))

format_text_maps_first(data) ==
    IF hours_of(data).kind # "list" \/ subjects_of(data).kind # "list" THEN Raised("TypeError")
    ELSE IF days_of(data) = <<>> THEN Returned("No timetable data returned.")
    ELSE LET hm == hour_map(hours_of(data).items)
             sm == subject_map(subjects_of(data).items)
         IN Returned(Join("\n", [i \in 1 .. Len(days_of(data)) |-> text_line(days_of(data)[i], hm, sm)]))

format_text(data) ==
    IF days_of(data) = <<>> THEN Returned("No timetable data returned.")
    ELSE IF hours_of(data).kind # "list" \/ subjects_of(data).kind # "list" THEN Raised("TypeError")
    ELSE LET hm == hour_map(hours_of(data).items)
             sm == subject_map(subjects_of(data).items)
         IN Returned(Join("\n", [i \in 1 .. Len(days_of(data)) |-> text_line(days_of(data)[i], hm, sm)]))

\* --------------------------------------------- TimetableClient.format_json
Unparsable == <<99, 99>>

CelebrationHours == 6

\* _parse_time_key(t), for begin times without a sign.  Of t.split(":") only
\* the first two parts are read, the second only when t has a colon.
parse_time_key(t) ==
    LET c == Find(t, ":", 1)
        first == IF c = 0 THEN t ELSE SubSeq(t, 1, c - 1)
        rest == SubSeq(t, c + 1, Len(t))
        second == IF Find(rest, ":", 1) = 0 THEN rest ELSE SubSeq(rest, 1, Find(rest, ":", 1) - 1)
    IN IF t = "" THEN Unparsable
       ELSE IF ~ to_int(JStr(first)).ok THEN Unparsable
       ELSE IF c = 0 THEN <<to_int(JStr(first)).v, 0>>
       ELSE IF ~ to_int(JStr(second)).ok THEN Unparsable
       ELSE <<to_int(JStr(first)).v, to_int(JStr(second)).v>>

\* Python's order on the (hour, minute) tuples
KeyLess(a, b) == a[1] < b[1] \/ (a[1] = b[1] /\ a[2] < b[2])

json_entry(atom, hm, sm) ==
    LET t == IF "HourId" \in DOMAIN atom THEN hour_times(hm, atom.HourId) ELSE <<"", "">> IN
    [time_range |-> IF t[1] # "" \/ t[2] # "" THEN span(t) ELSE "",
     subject |-> subject_of(atom, sm),
     change |-> change_desc(atom) # "",
     change_text |-> IF has_change(atom) THEN change_desc(atom) ELSE NoneStr,
     sort_key |-> parse_time_key(t[1])]

celebration_entry(dd) ==
    [time_range |-> "8:00-13:30", subject |-> dd, change |-> FALSE,
     change_text |-> NoneStr, sort_key |-> <<8, 0>>]

\* list.sort(key=...): stable; x goes after every element whose key is not
\* greater than its own.
insert_before_equal(sorted, x) ==
    LET k == Cardinality({i \in 1 .. Len(sorted) : KeyLess(sorted[i].sort_key, x.sort_key)})
    IN SubSeq(sorted, 1, k) \o <<x>> \o SubSeq(sorted, k + 1, Len(sorted))

insert(sorted, x) ==
    LET k == Cardinality({i \in 1 .. Len(sorted) : ~ KeyLess(x.sort_key, sorted[i].sort_key)})
    IN SubSeq(sorted, 1, k) \o <<x>> \o SubSeq(sorted, k + 1, Len(sorted))

RECURSIVE sort(_)
sort(entries) ==
    IF entries = <<>> THEN <<>>
    ELSE insert(sort(SubSeq(entries, 1, Len(entries) - 1)), entries[Len(entries)])

\* ae.pop("_sort_key")
pop_sort_key(ae) ==
    [time_range |-> ae.time_range, subject |-> ae.subject, change |-> ae.change,
     change_text |-> ae.change_text]

date_iso_of(dt) ==
    LET zeros == IF dt.y < 10 THEN "000" ELSE IF dt.y < 100 THEN "00" ELSE IF dt.y < 1000 THEN "0" ELSE ""
    IN zeros \o IntToStr(dt.y) \o "-" \o Pad2(dt.m) \o "-" \o Pad2(dt.d)

json_date(day) ==
    LET raw == raw_date_of(day)
        dt == fromisoformat(before_T(raw))
    IN IF raw = "" THEN [date |-> NoneStr, day_abbrev |-> ""]
       ELSE IF dt.ok
       THEN [date |-> date_iso_of(dt), day_abbrev |-> weekday_names[weekday(dt.y, dt.m, dt.d) + 1]]
       ELSE [date |-> raw, day_abbrev |-> Get(day, "DayName", "")]

atom_entries(day, hm, sm) ==
    LET dd == Get(day, "DayDescription", "") IN
    (IF is_celebration(day) /\ dd # "" THEN <<celebration_entry(dd)>> ELSE <<>>)
      \o [i \in 1 .. Len(atoms_of(day)) |-> json_entry(atoms_of(day)[i], hm, sm)]

hours_count_len(day, hours_out) == Len(hours_out)

hours_count(day, hours_out) == IF is_celebration(day) THEN CelebrationHours ELSE Len(hours_out)

json_day(day, hm, sm) ==
    LET sorted == sort(atom_entries(day, hm, sm))
        hours_out == [i \in 1 .. Len(sorted) |-> pop_sort_key(sorted[i])]
    IN [date |-> json_date(day).date,
        day_abbrev |-> json_date(day).day_abbrev,
        hours |-> hours_out,
        hours_count |-> hours_count(day, hours_out)]

format_json(data) ==
    IF days_of(data) = <<>> THEN Returned(<<>>)
    ELSE IF hours_of(data).kind # "list" \/ subjects_of(data).kind # "list" THEN Raised("TypeError")
    ELSE LET hm == hour_map(hours_of(data).items)
             sm == subject_map(subjects_of(data).items)
         IN Returned([i \in 1 .. Len(days_of(data)) |-> json_day(days_of(data)[i], hm, sm)])

\* ------------------------------------------------ KomensClient.format_text
\* The response is a JSON object or a JSON list.
KDict(fields) == [kind |-> "dict", fields |-> fields, items |-> <<>>]

KList(items) == [kind |-> "list", fields |-> EmptyDict, items |-> items]

\* data["Messages"], else data["data"], else data itself when it is a list
messages_of(data) ==
    IF data.kind = "list" THEN data.items
    ELSE IF "Messages" \in DOMAIN data.fields THEN data.fields.Messages
    ELSE Get(data.fields, "data", <<>>)

message_date(m) == Or(Get(m, "Date", ""), Get(m, "SentAt", ""))

message_line(m) ==
    LET mid == Or(Get(m, "Id", ""), Or(Get(m, "MessageId", ""), "?"))
        sender == Or(Get(m, "From", ""), Or(Get(m, "Sender", ""), Get(m, "FromName", "")))
        subject == Or(Get(m, "Subject", ""), Or(Get(m, "Title", ""), "(no subject)"))
    IN mid \o " | " \o sender \o " | " \o subject \o " | " \o message_date(m)

komens_format_text(data) ==
    IF messages_of(data) = <<>> THEN Returned("No komens messages returned.")
    ELSE Returned(Join("\n", [i \in 1 .. Len(messages_of(data)) |-> message_line(messages_of(data)[i])]))

\* ------------------------------------------------------- formatter inputs
MaxAtoms == 2

MaxSorted == 3

MaxMessages == 2

\* All sequences over S of length at most n.
RECURSIVE SeqsUpTo(_, _)
SeqsUpTo(S, n) ==
    IF n = 0 THEN {<<>>}
    ELSE LET shorter == SeqsUpTo(S, n - 1) IN
         shorter \cup {Append(q, x) : q \in shorter, x \in S}

\* The responses given to the timetable formatters.  The tables hold hours
\* with integer and string identifiers, one with an identifier that is not a
\* number, begin times that are equal as times ("08:00", "8:00"), unparsable
\* ("xx") or missing; Hours and Subjects are lists, missing, or not a list.
\* The data are: one plain day with one atom of every kind; one day of every
\* header with up to MaxAtoms atoms; a plain and a Celebration day with up to
\* MaxSorted atoms to order; no Days; two days.
TimetableData ==
    LET hours == << ("Id" :> JInt(1) @@ "BeginTime" :> "7:10" @@ "EndTime" :> "7:55"),
                    ("Id" :> JInt(2) @@ "BeginTime" :> "08:00" @@ "EndTime" :> "08:45"),
                    ("Id" :> JStr("3") @@ "BeginTime" :> "8:55" @@ "EndTime" :> "9:40"),
                    ("Id" :> JStr("2a") @@ "BeginTime" :> "10:00" @@ "EndTime" :> "10:45"),
                    ("Id" :> JInt(5) @@ "BeginTime" :> "xx" @@ "EndTime" :> "11:40"),
                    ("Id" :> JInt(6) @@ "EndTime" :> "12:35"),
                    ("Id" :> JInt(8) @@ "BeginTime" :> "8:00" @@ "EndTime" :> "8:45") >>
        subjects == << ("Id" :> "CJ" @@ "Abbrev" :> "^J" @@ "Name" :> "%e#tina"),
                       ("Id" :> " M " @@ "Name" :> "Matika"),
                       ("Id" :> "zz") >>
        std == ("Hours" :> JList(hours) @@ "Subjects" :> JList(subjects))
        tables == { std, EmptyDict,
                    ("Hours" :> JNumber @@ "Subjects" :> JList(subjects)),
                    ("Hours" :> JList(hours) @@ "Subjects" :> JNumber) }
        descriptions ==
            { "Suplov&n!: Jan Nov&k", "SUPLOV&N!  Jan   Nov&k", "Substitution: A: B", "supl",
              "Zm@na p#edm@tu: Pr (VV)", "Zmena predmetu: Pr (VV)", "Zm@na: M  (TV )",
              "Suplov&n!, zm@na: A (B)", "Change of subject: M (F)", "subject  change M(F)",
              "Zm@na: Pr (VV", "Zru%eno" }
        changes ==
            {("Description" :> x) : x \in descriptions}
              \cup { EmptyDict,
                     ("Description" :> "" @@ "ChangeType" :> "Canceled"),
                     ("ChangeType" :> "Substitution"),
                     ("Description" :> "  " @@ "ChangeType" :> ""),
                     ("Description" :> " Zru%eno " @@ "ChangeType" :> "Canceled") }
        entry_atoms ==
            {("SubjectId" :> sid) @@ h @@ c :
                sid \in {" CJ ", "xx"},
                h \in {EmptyDict}
                        \cup {("HourId" :> x) :
                                x \in {JInt(2), JStr("3"), JStr("02"), JStr("2a"), JInt(9), JInt(6)}},
                c \in {EmptyDict} \cup {("Change" :> x) : x \in changes}}
        plain == ("Date" :> "2024-01-15" @@ "DayType" :> "WorkDay")
        christmas == ("Date" :> "2024-12-24" @@ "DayType" :> "Celebration" @@ "DayDescription" :> "V&noce")
        headers ==
            {d @@ n @@ t :
                d \in {EmptyDict}
                        \cup {("Date" :> x) :
                                x \in { "2024-01-15", "2024-01-18T00:00:00+01:00", "2024-02-29Tx",
                                        "zitra", "2023-02-29" }},
                n \in {EmptyDict, ("DayName" :> "Po")},
                t \in { ("DayType" :> "WorkDay"),
                        ("DayType" :> "Celebration" @@ "DayDescription" :> "V&noce"),
                        ("DayType" :> "Celebration") }}
        day_atoms ==
            { ("HourId" :> JInt(2) @@ "SubjectId" :> "CJ"),
              ("HourId" :> JInt(1) @@ "SubjectId" :> "M"
                 @@ "Change" :> ("Description" :> "Suplov&n!: Jan Nov&k")) }
        sorted_atoms ==
            {("HourId" :> JInt(h) @@ "SubjectId" :> "CJ") : h \in {1, 2, 5, 6}}
              \cup { ("HourId" :> JInt(8) @@ "SubjectId" :> "M"),
                     ("HourId" :> JStr("3") @@ "SubjectId" :> "zz") }
    IN {("Days" :> <<plain @@ ("Atoms" :> <<a>>)>>) @@ t : a \in entry_atoms, t \in {std, EmptyDict}}
         \cup {("Days" :> <<h @@ ("Atoms" :> as)>>) @@ std :
                 h \in headers, as \in SeqsUpTo(day_atoms, MaxAtoms)}
         \cup {("Days" :> <<h @@ ("Atoms" :> as)>>) @@ std :
                 h \in {plain, christmas}, as \in SeqsUpTo(sorted_atoms, MaxSorted)}
         \cup {d @@ t : d \in {EmptyDict, ("Days" :> <<>>)}, t \in tables}
         \cup {("Days" :> <<plain, ("Date" :> "2024-01-16" @@ "Atoms" :> as)>>) @@ t :
                 as \in SeqsUpTo(day_atoms, 1), t \in tables}

\* The responses given to the komens formatter: one message with every
\* combination of the fields read for id, sender, subject and date, in a
\* Messages object; lists of up to MaxMessages messages; a data object; no
\* messages.
KomensData ==
    LET messages ==
            {i @@ f @@ t @@ d :
                i \in {EmptyDict, ("Id" :> "m1"), ("MessageId" :> "m2"), ("Id" :> "" @@ "MessageId" :> "m2")},
                f \in {EmptyDict, ("From" :> "Ji#!"), ("Sender" :> "Eva"), ("FromName" :> "Ota" @@ "Sender" :> "")},
                t \in {EmptyDict, ("Subject" :> "Sch_zka"), ("Title" :> "V$c"),
                       ("Subject" :> "Sch_zka" @@ "Title" :> "V$c")},
                d \in {EmptyDict, ("Date" :> "2024-01-15"), ("SentAt" :> "2024-01-16"),
                       ("SentDate" :> "2024-01-17"),
                       ("SentAt" :> "2024-01-16" @@ "SentDate" :> "2024-01-17")}}
        listed ==
            { ("Id" :> "m1" @@ "From" :> "Ji#!" @@ "Subject" :> "Sch_zka" @@ "Date" :> "2024-01-15"),
              ("Title" :> "V$c" @@ "SentDate" :> "2024-01-17") }
    IN {KDict("Messages" :> <<m>>) : m \in messages}
         \cup {KList(ms) : ms \in SeqsUpTo(listed, MaxMessages)}
         \cup {KDict("data" :> ms) : ms \in SeqsUpTo(listed, 1)}
         \cup { KDict(EmptyDict),
                KDict("Messages" :> <<>> @@ "data" :> <<("Id" :> "m1")>>) }

\* ------------------------------------------------ formatter state machine
FmtInit ==
    /\ now = Epoch0
    /\ frac = 0
    /\ tz = 0
    /\ file = NoFile
    /\ last_auth_method = NoneStr
    /\ call = NoCall
    /\ fmt = FmtIdle
    /\ api = ApiIdle

Formatted(op, data, res) ==
    /\ fmt.op = "idle"
    /\ fmt' = [seq |-> 1 - fmt.seq, op |-> op, data |-> data, res |-> res]
    /\ UNCHANGED <<now, frac, tz, file, last_auth_method, call, api>>

FormatText == \E data \in TimetableData : Formatted("format_text", data, format_text(data))

FormatJson == \E data \in TimetableData : Formatted("format_json", data, format_json(data))

KomensFormatText == \E data \in KomensData : Formatted("komens_format_text", data, komens_format_text(data))

\* The result has been consumed; the formatters keep no state.
FmtDone ==
    /\ fmt.op # "idle"
    /\ fmt' = [FmtIdle EXCEPT !.seq = fmt.seq]
    /\ UNCHANGED <<now, frac, tz, file, last_auth_method, call, api>>

FmtNext ==
    \/ FormatText
    \/ FormatJson
    \/ KomensFormatText
    \/ FmtDone

FmtSpec == FmtInit /\ [][FmtNext]_vars

\* ============================================================ formatters
\* Vocabulary of the formatter claims.
IndexOf(s, sub) ==
    IF \E i \in 1 .. Len(s) - Len(sub) + 1 : SubSeq(s, i, i + Len(sub) - 1) = sub
    THEN CHOOSE i \in 1 .. Len(s) - Len(sub) + 1 :
           /\ SubSeq(s, i, i + Len(sub) - 1) = sub
           /\ \A k \in 1 .. i - 1 : SubSeq(s, k, k + Len(sub) - 1) # sub
    ELSE 0

RECURSIVE Split(_, _)
Split(s, sep) ==
    IF IndexOf(s, sep) = 0 THEN <<s>>
    ELSE <<SubSeq(s, 1, IndexOf(s, sep) - 1)>>
           \o Split(SubSeq(s, IndexOf(s, sep) + Len(sep), Len(s)), sep)

\* A timetable formatter has returned the days of a non-empty Days list.
TextCall == fmt.op = "format_text" /\ fmt.res.exc = "none" /\ days_of(fmt.data) # <<>>

JsonCall == fmt.op = "format_json" /\ fmt.res.exc = "none" /\ days_of(fmt.data) # <<>>

Days == days_of(fmt.data)

DayIndexes == 1 .. Len(Days)

AtomIndexes(i) == 1 .. Len(atoms_of(Days[i]))

Atom(i, j) == atoms_of(Days[i])[j]

\* The lookup tables of the input.
HourTable == hour_map(hours_of(fmt.data).items)

SubjectTable == subject_map(subjects_of(fmt.data).items)

\* The text of day i: its header and its entries.
TextLine(i) == Split(fmt.res.out, "\n")[i]

TextHeader(i) == SubSeq(TextLine(i), 1, IndexOf(TextLine(i), " -- ") - 1)

TextEntries(i) ==
    Split(SubSeq(TextLine(i), IndexOf(TextLine(i), " -- ") + 4, Len(TextLine(i))), " | ")

\* One line per day and, for a day with atoms, one entry per atom.
TextShape ==
    /\ Len(Split(fmt.res.out, "\n")) = Len(Days)
    /\ \A i \in DayIndexes :
         /\ IndexOf(TextLine(i), " -- ") # 0
         /\ atoms_of(Days[i]) # <<>> => Len(TextEntries(i)) = Len(atoms_of(Days[i]))

\* "{range} " of an entry of format_text: nothing for an atom without HourId.
Range(atom) == IF "HourId" \in DOMAIN atom THEN text_range(atom, HourTable) \o " " ELSE ""

Subject(atom) == subject_of(atom, SubjectTable)

\* The teacher of a substitution: the text after the first colon, or the
\* whole description, with runs of whitespace collapsed.
Teacher(desc) ==
    LET c == IndexOf(desc, ":") IN
    Normalize(IF c = 0 THEN desc ELSE SubSeq(desc, c + 1, Len(desc)))

IsSubstitution(atom) ==
    /\ has_change(atom)
    /\ \/ IndexOf(Lower(change_desc(atom)), "supl") # 0
       \/ IndexOf(Lower(change_desc(atom)), "substitut") # 0
    /\ ~ subject_change(change_desc(atom)).ok

\* C12 as stated: the entry of a substitution is
\* "{range} {subject} (Substitution: {teacher})".
C12_AsStated ==
    TextCall =>
      /\ TextShape
      /\ \A i \in DayIndexes : \A j \in AtomIndexes(i) :
           IsSubstitution(Atom(i, j)) =>
             TextEntries(i)[j] = Range(Atom(i, j)) \o Subject(Atom(i, j))
                                   \o " (Substitution: " \o Teacher(change_desc(Atom(i, j))) \o ")"

\* C12 (amended): the entry of an atom whose description contains "supl" or
\* "substitut" and matches no subject-change pattern is
\* "{range} {subject} (Suplování: {teacher})"; the label is the Czech word.
C12_Substitution ==
    TextCall =>
      /\ TextShape
      /\ \A i \in DayIndexes : \A j \in AtomIndexes(i) :
           IsSubstitution(Atom(i, j)) =>
             TextEntries(i)[j] = Range(Atom(i, j)) \o Subject(Atom(i, j))
                                   \o " (Suplov&n!: " \o Teacher(change_desc(Atom(i, j))) \o ")"

C12_Witness ==
    /\ TextCall
    /\ \E i \in DayIndexes : \E j \in AtomIndexes(i) :
         /\ IsSubstitution(Atom(i, j))
         /\ change_desc(Atom(i, j)) = "Suplov&n!: Jan Nov&k"
         /\ TextEntries(i)[j] = "08:00-08:45 ^J (Suplov&n!: Jan Nov&k)"

\* The date string of a day, and whether it is an ISO-8601 date as given
\* or after discarding the part from "T" on.
RawDate(day) == raw_date_of(day)

ParsedDate(day) ==
    IF fromisoformat(RawDate(day)).ok THEN fromisoformat(RawDate(day))
    ELSE fromisoformat(before_T(RawDate(day)))

\* The celebration prefix of a header.
CelebrationPrefix(day) ==
    IF Get(day, "DayType", "") = "Celebration" /\ Get(day, "DayDescription", "") # ""
    THEN "** Celebration: " \o day.DayDescription \o " ** "
    ELSE ""

ParsedHeader(day) ==
    LET dt == ParsedDate(day) IN
    Pad2(dt.d) \o "." \o Pad2(dt.m) \o "." \o IntToStr(dt.y) \o " - "
      \o <<"Po", "~t", "St", "^t", "P&", "So", "Ne">>[weekday(dt.y, dt.m, dt.d) + 1]

\* C13 as stated: a day whose date cannot be parsed shows the raw date and
\* an empty weekday, whatever its DayName; a parsable date shows the weekday
\* of the table.
C13_AsStated ==
    TextCall =>
      \A i \in DayIndexes :
        TextHeader(i) = CelebrationPrefix(Days[i])
                          \o (IF ParsedDate(Days[i]).ok THEN ParsedHeader(Days[i])
                              ELSE RawDate(Days[i]) \o " - ")

\* C13 (amended): a day whose date string (Date, or DayName when there is no
\* Date) cannot be parsed shows that string verbatim and, as weekday, the
\* day's DayName (empty when it has none); a parsable date shows DD.MM.YYYY
\* and the weekday of the table [Po, Út, St, Čt, Pá, So, Ne].
C13_Header ==
    TextCall =>
      \A i \in DayIndexes :
        TextHeader(i) = CelebrationPrefix(Days[i])
                          \o (IF ParsedDate(Days[i]).ok THEN ParsedHeader(Days[i])
                              ELSE RawDate(Days[i]) \o " - " \o Get(Days[i], "DayName", ""))

C13_Witness ==
    /\ TextCall
    /\ Len(Days) = 1
    /\ Get(Days[1], "Date", "") = "zitra"
    /\ Get(Days[1], "DayName", "") = "Po"
    /\ Get(Days[1], "DayType", "") = "WorkDay"
    /\ TextHeader(1) = "zitra - Po"

\* The Hours elements whose identifier equals the hour id of the atom as a
\* trimmed string, and the range the entry is said to show.
SameHour(atom) ==
    {k \in 1 .. Len(hours_of(fmt.data).items) :
       /\ "Id" \in DOMAIN hours_of(fmt.data).items[k]
       /\ Strip(to_str(hours_of(fmt.data).items[k].Id)) = Strip(to_str(atom.HourId))}

StatedRange(atom) ==
    IF SameHour(atom) # {}
    THEN LET hh == hours_of(fmt.data).items[CHOOSE k \in SameHour(atom) : \A n \in SameHour(atom) : n <= k]
         IN Get(hh, "BeginTime", "") \o "-" \o Get(hh, "EndTime", "")
    ELSE to_str(atom.HourId)

Unchanged(atom) == change_desc(atom) = ""

\* C14: every atom yields one entry; the entry of an unchanged atom is
\* "{range} {subject}" with the range of the Hours element of the same
\* identifier, else the bare hour id, and format_json reports the same range
\* and subject.
C14_EntryAssembly ==
    /\ TextCall =>
         /\ TextShape
         /\ \A i \in DayIndexes : \A j \in AtomIndexes(i) :
              Unchanged(Atom(i, j)) /\ "HourId" \in DOMAIN Atom(i, j) =>
                TextEntries(i)[j] = StatedRange(Atom(i, j)) \o " " \o Subject(Atom(i, j))
    /\ JsonCall =>
         \A i \in DayIndexes :
           /\ ~ is_celebration(Days[i]) => Len(fmt.res.out[i].hours) = Len(atoms_of(Days[i]))
           /\ /\ ~ is_celebration(Days[i])
              /\ Len(atoms_of(Days[i])) = 1
              /\ Unchanged(Atom(i, 1))
              /\ "HourId" \in DOMAIN Atom(i, 1)
              => /\ fmt.res.out[i].hours[1].time_range = StatedRange(Atom(i, 1))
                 /\ fmt.res.out[i].hours[1].subject = Subject(Atom(i, 1))

\* The entry the change rules (a) to (d) give an atom for the description D.
ByPriority(atom, D) ==
    IF subject_change(D).ok
    THEN Range(atom) \o subject_change(D).old \o " -> " \o subject_change(D).new
    ELSE IF IndexOf(Lower(D), "supl") # 0 \/ IndexOf(Lower(D), "substitut") # 0
    THEN Range(atom) \o Subject(atom) \o " (Suplov&n!: " \o Teacher(D) \o ")"
    ELSE IF D # "" THEN Range(atom) \o D
    ELSE Range(atom) \o Subject(atom)

\* C15 as stated: the rules are applied to the Description of the change
\* record.
C15_AsStated ==
    TextCall =>
      /\ TextShape
      /\ \A i \in DayIndexes : \A j \in AtomIndexes(i) :
           "Change" \in DOMAIN Atom(i, j) =>
             TextEntries(i)[j] = ByPriority(Atom(i, j), Strip(Get(Atom(i, j).Change, "Description", "")))

\* C15 (amended): the rules (a) subject change, (b) substitution, (c) bare
\* description, (d) plain entry are applied in this order to D, the trimmed
\* Description or, when that is empty, the trimmed ChangeType.
C15_Priority ==
    TextCall =>
      /\ TextShape
      /\ \A i \in DayIndexes : \A j \in AtomIndexes(i) :
           "Change" \in DOMAIN Atom(i, j) =>
             TextEntries(i)[j] = ByPriority(Atom(i, j),
                                            Strip(Or(Get(Atom(i, j).Change, "Description", ""),
                                                     Get(Atom(i, j).Change, "ChangeType", ""))))

C15_Witness ==
    /\ TextCall
    /\ Len(Days) = 1
    /\ Len(atoms_of(Days[1])) = 1
    /\ "Change" \in DOMAIN Atom(1, 1)
    /\ Get(Atom(1, 1).Change, "Description", "") = "Suplov&n!, zm@na: A (B)"
    /\ TextEntries(1)[1] = "08:00-08:45 B -> A"

Unordered(i) == atom_entries(Days[i], HourTable, SubjectTable)

HasSynthetic(i) ==
    Get(Days[i], "DayType", "") = "Celebration" /\ Get(Days[i], "DayDescription", "") # ""

BeginTime(i, k) ==
    IF HasSynthetic(i) /\ k = 1 THEN "8:00"
    ELSE LET atom == Atom(i, IF HasSynthetic(i) THEN k - 1 ELSE k) IN
         IF "HourId" \in DOMAIN atom THEN hour_times(HourTable, atom.HourId)[1] ELSE ""

\* A begin time is parsable when it is "H", "H:M" or "H:M:..." in digits.
IsParsable(t) ==
    /\ t # ""
    /\ AllDigits(Strip(Split(t, ":")[1]))
    /\ Len(Split(t, ":")) > 1 => AllDigits(Strip(Split(t, ":")[2]))

HourOf(t) == DigitsToInt(Strip(Split(t, ":")[1]))

MinuteOf(t) == IF Len(Split(t, ":")) > 1 THEN DigitsToInt(Strip(Split(t, ":")[2])) ELSE 0

\* Entry n comes before entry k of the same day.
Before(i, n, k) ==
    LET a == BeginTime(i, n)
        b == BeginTime(i, k)
    IN IF IsParsable(a) /\ IsParsable(b)
       THEN \/ HourOf(a) < HourOf(b)
            \/ HourOf(a) = HourOf(b) /\ MinuteOf(a) < MinuteOf(b)
            \/ HourOf(a) = HourOf(b) /\ MinuteOf(a) = MinuteOf(b) /\ n < k
       ELSE IF IsParsable(a) # IsParsable(b) THEN IsParsable(a)
       ELSE n < k

Position(i, k) == 1 + Cardinality({n \in 1 .. Len(Unordered(i)) : n # k /\ Before(i, n, k)})

\* C17: the hours of a day are ordered ascending by the (hour, minute) of
\* their begin time, entries without a parsable begin time last, entries
\* with equal keys in input order, the synthetic Celebration entry as 8:00.
C17_Ordered ==
    JsonCall =>
      \A i \in DayIndexes :
        /\ Len(fmt.res.out[i].hours) = Len(Unordered(i))
        /\ \A k \in 1 .. Len(Unordered(i)) :
             fmt.res.out[i].hours[Position(i, k)] = pop_sort_key(Unordered(i)[k])

C17_Witness ==
    /\ JsonCall
    /\ Len(Days) = 1
    /\ HasSynthetic(1)
    /\ Len(atoms_of(Days[1])) = 3
    /\ Atom(1, 1).HourId = JInt(5)
    /\ Atom(1, 2).HourId = JInt(8)
    /\ Atom(1, 3).HourId = JInt(1)
    /\ [n \in 1 .. 4 |-> fmt.res.out[1].hours[n].time_range]
         = <<"7:10-7:55", "8:00-13:30", "8:00-8:45", "xx-11:40">>

\* C18: with a missing or empty Days list format_text returns the sentinel
\* and format_json an empty day list, even when Hours or Subjects cannot be
\* read; a day without atoms in a non-empty Days list renders "(no hours)".
C18_EmptyDays ==
    /\ fmt.op = "format_text" /\ Get(fmt.data, "Days", <<>>) = <<>>
         => fmt.res = [exc |-> "none", out |-> "No timetable data returned."]
    /\ fmt.op = "format_json" /\ Get(fmt.data, "Days", <<>>) = <<>>
         => fmt.res.exc = "none" /\ fmt.res.out = <<>>
    /\ TextCall =>
         /\ fmt.res.out # "No timetable data returned."
         /\ \A i \in DayIndexes :
              atoms_of(Days[i]) = <<>> => TextEntries(i) = <<"(no hours)">>

C18_Witness ==
    /\ fmt.op = "format_text"
    /\ "Days" \in DOMAIN fmt.data
    /\ fmt.data.Days = <<>>
    /\ hours_of(fmt.data).kind = "number"
    /\ fmt.res.out = "No timetable data returned."

\* The first of the keys of a message that has a non-empty value, else the
\* default.
FirstOf(m, keys, default) ==
    IF \E n \in 1 .. Len(keys) : Get(m, keys[n], "") # ""
    THEN m[keys[CHOOSE n \in 1 .. Len(keys) :
                  /\ Get(m, keys[n], "") # ""
                  /\ \A k \in 1 .. n - 1 : Get(m, keys[k], "") = ""]]
    ELSE default

KomensCall == fmt.op = "komens_format_text" /\ fmt.res.exc = "none"

\* C19: an empty or absent message list renders the sentinel; a message
\* renders "{id} | {sender} | {subject} | {date}" with the fallbacks of each
\* field, and a message with only Title and SentDate renders
\* "? | | {Title} | {SentDate}".
C19_MessageLine ==
    KomensCall =>
      LET ms == messages_of(fmt.data) IN
      /\ ms = <<>> => fmt.res.out = "No komens messages returned."
      /\ ms # <<>> =>
           /\ Len(Split(fmt.res.out, "\n")) = Len(ms)
           /\ \A n \in 1 .. Len(ms) :
                IF DOMAIN ms[n] = {"Title", "SentDate"}
                THEN Split(fmt.res.out, "\n")[n] = "? | | " \o ms[n].Title \o " | " \o ms[n].SentDate
                ELSE Split(fmt.res.out, "\n")[n]
                       = FirstOf(ms[n], <<"Id", "MessageId">>, "?") \o " | "
                           \o FirstOf(ms[n], <<"From", "Sender", "FromName">>, "") \o " | "
                           \o FirstOf(ms[n], <<"Subject", "Title">>, "(no subject)") \o " | "
                           \o FirstOf(ms[n], <<"Date", "SentAt">>, "")

\* ============================================ TimetableClient, KomensClient
\* What requests.get/post/put can give an API call: a network failure, or a
\* response with a status and a body.  The body is a JSON object without a
\* number, a JSON object holding a number, a JSON number, or not JSON.
ApiResponses ==
    {[net |-> "error"]}
      \cup {[net |-> "ok", status |-> st, json |-> b.json, text |-> b.text] :
              st \in {200, 204, 400, 401, 405, 500},
              b \in { [json |-> "object", text |-> "{..}"],
                      [json |-> "count", text |-> "{n}"],
                      [json |-> "number", text |-> "3"],
                      [json |-> "invalid", text |-> "<html>"] }}

\* TimetableError for the timetable client, KomensError for the komens one.
ApiError(op) == IF op \in {"actual", "permanent"} THEN "TimetableError" ELSE "KomensError"

Outcome(exc, msg, ret) == [exc |-> exc, msg |-> msg, ret |-> ret]

Unauthorized(op) ==
    Outcome(ApiError(op), <<"Unauthorized - invalid or expired access token">>, NoneStr)

\* return resp.json(), an API error when the body is not JSON
json_or_error(op, resp) ==
    IF resp.json = "invalid"
    THEN Outcome(ApiError(op), <<"Invalid JSON response: ", IntToStr(resp.status), " ", resp.text>>, NoneStr)
    ELSE Outcome("none", <<>>, resp.text)

actual(resp) ==
    IF resp.status = 401 THEN Unauthorized("actual")
    ELSE IF resp.status = 400 THEN Outcome("TimetableError", <<"Bad request: ", resp.text>>, NoneStr)
    ELSE json_or_error("actual", resp)

permanent(resp) ==
    IF resp.status = 401 THEN Unauthorized("permanent") ELSE json_or_error("permanent", resp)

post_list(resp) ==
    IF resp.status = 401 THEN Unauthorized("post_list")
    ELSE IF resp.status = 405 THEN Outcome("KomensError", <<"Method not allowed: ", resp.text>>, NoneStr)
    ELSE json_or_error("post_list", resp)

get_message(resp) ==
    IF resp.status = 401 THEN Unauthorized("get_message") ELSE json_or_error("get_message", resp)

mark_as_read(resp) ==
    IF resp.status = 204 THEN Outcome("none", <<>>, NoneStr)
    ELSE IF resp.status = 401 THEN Unauthorized("mark_as_read")
    ELSE Outcome("KomensError", <<"Failed to mark as read: ", IntToStr(resp.status), " ", resp.text>>, NoneStr)

unread_count(resp) ==
    IF resp.status = 401 THEN Unauthorized("unread_count")
    ELSE IF resp.status # 200
    THEN Outcome("KomensError", <<"Failed to get unread count: ", IntToStr(resp.status), " ", resp.text>>, NoneStr)
    ELSE IF resp.json \in {"number", "count"} THEN Outcome("none", <<>>, "3")
    ELSE IF resp.json = "object"
    THEN Outcome("KomensError", <<"Unexpected unread response: ", resp.text>>, NoneStr)
    ELSE Outcome("KomensError", <<"Invalid response for unread count: ", resp.text>>, NoneStr)

handle(op, resp) ==
    CASE op = "actual" -> actual(resp)
      [] op = "permanent" -> permanent(resp)
      [] op = "post_list" -> post_list(resp)
      [] op = "get_message" -> get_message(resp)
      [] op = "mark_as_read" -> mark_as_read(resp)
      [] op = "unread_count" -> unread_count(resp)

\* _auth_headers, then the request: tok is the result of get_access_token.
\* A LoginError becomes the API error with the same message and any other
\* exception passes through, both before a request is sent; a network
\* failure of the request passes through as well.
api_call_sends_anyway(op, tok, resp) ==
    IF tok.exc = "LoginError"
    THEN [sent |-> TRUE, bearer |-> NoneStr] @@ Outcome(ApiError(op), tok.msg, NoneStr)
    ELSE IF tok.exc # "none"
    THEN [sent |-> FALSE, bearer |-> NoneStr] @@ Outcome(tok.exc, tok.msg, NoneStr)
    ELSE IF resp.net = "error"
    THEN [sent |-> TRUE, bearer |-> tok.retStr] @@ Outcome("RequestException", <<>>, NoneStr)
    ELSE [sent |-> TRUE, bearer |-> tok.retStr] @@ handle(op, resp)

api_call(op, tok, resp) ==
    IF tok.exc = "LoginError"
    THEN [sent |-> FALSE, bearer |-> NoneStr] @@ Outcome(ApiError(op), tok.msg, NoneStr)
    ELSE IF tok.exc # "none"
    THEN [sent |-> FALSE, bearer |-> NoneStr] @@ Outcome(tok.exc, tok.msg, NoneStr)
    ELSE IF resp.net = "error"
    THEN [sent |-> TRUE, bearer |-> tok.retStr] @@ Outcome("RequestException", <<>>, NoneStr)
    ELSE [sent |-> TRUE, bearer |-> tok.retStr] @@ handle(op, resp)

\* ------------------------------------------------------ API state machine
ApiInit ==
    /\ now = Epoch0
    /\ frac = 0
    /\ tz = 0
    /\ file \in InitialFiles
    /\ last_auth_method = NoneStr
    /\ call = NoCall
    /\ fmt = FmtIdle
    /\ api = ApiIdle

\* One API call: get_access_token (with its refresh, which rewrites the token
\* file), then the request and the handling of its response.
ApiCall(op) ==
    /\ api.op = "idle"
    /\ \E r1 \in Answers(StoredExpired) :
         LET tok == get_access_token(file, last_auth_method, r1, DT(now, frac), tz) IN
         \E resp \in (IF tok.exc = "none" THEN ApiResponses ELSE {NoResp}) :
           LET out == api_call(op, tok, resp) IN
           /\ file' = tok.file
           /\ last_auth_method' = tok.auth
           /\ api' = [seq |-> 1 - api.seq, op |-> op, grant |-> r1,
                      sent |-> out.sent, bearer |-> out.bearer, resp |-> resp,
                      exc |-> out.exc, msg |-> out.msg, ret |-> out.ret]
    /\ UNCHANGED <<now, frac, tz, call, fmt>>

Actual == ApiCall("actual")

Permanent == ApiCall("permanent")

PostList == ApiCall("post_list")

GetMessage == ApiCall("get_message")

MarkAsRead == ApiCall("mark_as_read")

UnreadCount == ApiCall("unread_count")

\* The caller has taken the result.
ApiDone ==
    /\ api.op # "idle"
    /\ api' = [ApiIdle EXCEPT !.seq = api.seq]
    /\ UNCHANGED <<now, frac, tz, file, last_auth_method, call, fmt>>

ApiNext ==
    \/ Actual
    \/ Permanent
    \/ PostList
    \/ GetMessage
    \/ MarkAsRead
    \/ UnreadCount
    \/ ApiDone
    \/ Tick

ApiSpec == ApiInit /\ [][ApiNext]_vars

\* ============================================================= API calls
\* An API call has received a response.
Answered == api.op # "idle" /\ api.sent /\ api.resp.net = "ok"

\* C20: an API call raises the API error on every non-2xx response and
\* never returns its body; 401 is always the same Unauthorized error;
\* mark-as-read succeeds only on 204.
C20_Non2xxRaises ==
    Answered =>
      /\ api.resp.status \notin 200 .. 299
           => api.exc = ApiError(api.op) /\ api.ret = NoneStr
      /\ api.resp.status = 401
           => api.msg = <<"Unauthorized - invalid or expired access token">>
      /\ api.op = "mark_as_read" /\ api.exc = "none" => api.resp.status = 204

\* A step that is an API call.
ApiStep == api'.seq # api.seq /\ api'.op # "idle"

\* The refresh request of the call was rejected: answered, but not with a
\* credential (a non-200 answer, a body that is not JSON, a 200 answer
\* without both tokens).
RefreshRejected(resp) ==
    /\ resp.net = "ok"
    /\ \/ resp.json = "invalid"
       \/ resp.json = "object" /\ ~ GrantSucceeds(resp)

\* The message of the LoginError of a rejected refresh.
RejectionMessage(resp) ==
    IF resp.json = "invalid" THEN <<"Invalid response from server: ", StatusStr(resp.status), resp.text>>
    ELSE IF resp.status # 200
    THEN <<"Login failed: ",
           IF Truthy(Get(resp.body, "error_description", NoneStr)) THEN resp.body["error_description"]
           ELSE IF Truthy(Get(resp.body, "error", NoneStr)) THEN resp.body["error"]
           ELSE resp.text>>
    ELSE <<"Login response missing tokens">>

\* C22: an API call gets its token from get_access_token() before it sends
\* anything.  Without a stored credential, or with an expired one whose
\* refresh is rejected, it raises the API error with the message of the auth
\* error and sends no request; with an expired one whose refresh succeeds,
\* the request carries the new access token, which is the one now stored; with
\* an unexpired one the request carries the stored access token.
C22_TokenBeforeRequest ==
    [][ ApiStep =>
          /\ IsNone(Stored)
               => /\ api'.exc = ApiError(api'.op)
                  /\ api'.msg = <<"No tokens available; please login first">>
                  /\ ~ api'.sent
                  /\ api'.grant = NoResp
                  /\ file' = file
          /\ StoredExpired /\ RefreshRejected(api'.grant)
               => /\ api'.exc = ApiError(api'.op)
                  /\ api'.msg = <<"Failed to refresh token: ">> \o RejectionMessage(api'.grant)
                  /\ ~ api'.sent
                  /\ file' = file
          /\ StoredExpired /\ GrantSucceeds(api'.grant)
               => /\ api'.sent
                  /\ api'.bearer = api'.grant.body["access_token"]
                  /\ file'.data["access_token"] = api'.bearer
          /\ ~ IsNone(Stored) /\ ~ StoredExpired
               => /\ api'.sent
                  /\ api'.grant = NoResp
                  /\ api'.bearer = Stored.access_token
          /\ api'.sent => api'.bearer # NoneStr ]_vars

C22_Witness ==
    /\ api.op = "actual"
    /\ GrantSucceeds(api.grant)
    /\ api.sent
    /\ api.bearer = "a2"
    /\ file.kind = "object"
    /\ Get(file.data, "access_token", NoneStr) = "a2"
    /\ last_auth_method = "refresh"
    /\ api.resp.net = "ok"
    /\ api.resp.status = 200
    /\ api.exc = "none"

====
